---- MODULE Spec2Model ----
(***************************************************************************)
(* A model of src/irc.js (Twitch-IRC): the IRC class (constructor          *)
(* listeners, join, chat, leave, getChannels) and the serverResponse       *)
(* utility that frames the socket data into lines, parses each line into a *)
(* Msg and appends it to the history.                                      *)
(*                                                                         *)
(* Strings are sequences of one-character strings, so that search,         *)
(* substring, split and case conversion are computed as the code computes  *)
(* them.                                                                   *)
(***************************************************************************)
EXTENDS Integers, Sequences, FiniteSets, TLC

VARIABLES
    socket,       \* the net.Socket: "connecting", "open", "ended" (the
                  \* server has ended the connection), "closed" (destroyed)
    clientState,  \* this.clientState.state
    debug_mode,   \* this.debug_mode
    history,      \* this.history: sequence of Msg
    channel,      \* this.channel: sequence of channel names
    wire,         \* every string handed to client.write, in order
    emitted,      \* every chatEvents.emit('message', ...), in order
    listeners,    \* the handlers added with chatEvents.on('message', h), in order
    delivered,    \* every call of a handler: which one, with what arguments
    attempts,     \* the timers of every join() that passed both checks
    deferred,     \* channels of the pending setTimeout(() => this.join(c), 1000)
    last,         \* the handler that ran last, its arguments and what it logged
    inbox,        \* bytes the server has sent that the socket has not delivered yet
    sentLines     \* the lines the server has put on the connection, in order

vars == <<socket, clientState, debug_mode, history, channel, wire, emitted,
          listeners, delivered, attempts, deferred, last, inbox, sentLines>>

----------------------------------------------------------------------------
(* Characters and JavaScript string primitives.                            *)

LowerCase == <<"a","b","c","d","e","f","g","h","i","j","k","l","m",
               "n","o","p","q","r","s","t","u","v","w","x","y","z">>
UpperCase == <<"A","B","C","D","E","F","G","H","I","J","K","L","M",
               "N","O","P","Q","R","S","T","U","V","W","X","Y","Z">>
Digit == {"0","1","2","3","4","5","6","7","8","9"}
\* The white space Number() trims, as far as a string here can hold it: tab,
\* line feed, vertical tab, form feed, carriage return and space. (The
\* code points above U+007E that it trims too, U+00A0, U+FEFF, U+2028 and
\* the like, are not among the characters of the lines modelled.)
WhiteSpace == {" ", "\t", "\r", "\n", "\f", ""}

Min(a, b) == IF a < b THEN a ELSE b
Max(a, b) == IF a < b THEN b ELSE a

\* The value of a field that was never assigned, or assigned undefined.
Absent == <<"undefined">>

\* String.prototype.toLowerCase / toUpperCase, one character.
ToLowerChar(c) ==
    IF \E i \in 1..26 : UpperCase[i] = c
    THEN LowerCase[CHOOSE i \in 1..26 : UpperCase[i] = c]
    ELSE c
ToUpperChar(c) ==
    IF \E i \in 1..26 : LowerCase[i] = c
    THEN UpperCase[CHOOSE i \in 1..26 : LowerCase[i] = c]
    ELSE c
ToLowerCase(s) == [i \in 1..Len(s) |-> ToLowerChar(s[i])]
ToUpperCase(s) == [i \in 1..Len(s) |-> ToUpperChar(s[i])]

\* String.prototype.substring(a, b): both ends clamped to [0, length], swapped
\* when a > b. Indices are JavaScript's, from 0.
Substring(s, a, b) ==
    LET n  == Len(s)
        a1 == Min(Max(a, 0), n)
        b1 == Min(Max(b, 0), n)
    IN  SubSeq(s, Min(a1, b1) + 1, Max(a1, b1))
\* String.prototype.substring(a)
SubstringFrom(s, a) == Substring(s, a, Len(s))

\* String.prototype.search for a pattern that is a literal text: the index
\* (from 0) of its first occurrence, -1 when there is none.
Search(s, pat) ==
    LET hits == {i \in 1..(Len(s) - Len(pat) + 1) :
                    SubSeq(s, i, i + Len(pat) - 1) = pat}
    IN  IF hits = {} THEN -1
        ELSE (CHOOSE i \in hits : \A j \in hits : i <= j) - 1

\* String.prototype.split(' '): the pieces between single spaces.
RECURSIVE Split(_)
Split(s) ==
    LET sp == Search(s, <<" ">>)
    IN  IF sp = -1 THEN <<s>>
        ELSE <<Substring(s, 0, sp)>> \o Split(SubstringFrom(s, sp + 1))

\* Array.prototype.includes / indexOf on this.channel.
Includes(arr, x) == \E i \in 1..Len(arr) : arr[i] = x
IndexOf(arr, x) ==
    IF Includes(arr, x)
    THEN (CHOOSE i \in 1..Len(arr) :
             arr[i] = x /\ \A j \in 1..(i - 1) : arr[j] # x) - 1
    ELSE -1

\* isNaN(text): Number(text) is NaN. Number() trims white space, reads the
\* empty text as 0, and otherwise wants a decimal literal with an optional
\* sign, or an unsigned hexadecimal, octal or binary literal.
RECURSIVE TrimStart(_)
TrimStart(s) ==
    IF s # <<>> /\ s[1] \in WhiteSpace THEN TrimStart(Tail(s)) ELSE s
RECURSIVE TrimEnd(_)
TrimEnd(s) ==
    IF s # <<>> /\ s[Len(s)] \in WhiteSpace
    THEN TrimEnd(SubSeq(s, 1, Len(s) - 1)) ELSE s
AllIn(s, set) == \A i \in 1..Len(s) : s[i] \in set
IsMantissa(m) ==
    \/ m # <<>> /\ AllIn(m, Digit)
    \/ \E i \in 1..Len(m) :
          /\ m[i] = "."
          /\ AllIn(SubSeq(m, 1, i - 1), Digit)
          /\ AllIn(SubSeq(m, i + 1, Len(m)), Digit)
          /\ Len(m) > 1
IsExponent(e) ==
    /\ Len(e) >= 2
    /\ e[1] \in {"e", "E"}
    /\ LET r == IF e[2] \in {"+", "-"} THEN SubSeq(e, 3, Len(e)) ELSE Tail(e)
       IN  r # <<>> /\ AllIn(r, Digit)
IsUnsignedDecimal(t) ==
    \E j \in 1..Len(t) :
        /\ IsMantissa(SubSeq(t, 1, j))
        /\ \/ j = Len(t)
           \/ IsExponent(SubSeq(t, j + 1, Len(t)))
IsRadixLiteral(t) ==
    /\ Len(t) >= 3
    /\ t[1] = "0"
    /\ LET d == SubSeq(t, 3, Len(t))
       IN  \/ t[2] \in {"x", "X"}
              /\ AllIn(d, Digit \cup {"a","b","c","d","e","f","A","B","C","D","E","F"})
           \/ t[2] \in {"o", "O"} /\ AllIn(d, {"0","1","2","3","4","5","6","7"})
           \/ t[2] \in {"b", "B"} /\ AllIn(d, {"0","1"})
Infinity == <<"I","n","f","i","n","i","t","y">>
IsNaN(s) ==
    LET t == TrimEnd(TrimStart(s))
        u == IF t # <<>> /\ t[1] \in {"+", "-"} THEN Tail(t) ELSE t
    IN  ~ \/ t = <<>>
          \/ IsUnsignedDecimal(u)
          \/ u = Infinity
          \/ IsRadixLiteral(t)

----------------------------------------------------------------------------
(* Texts of the protocol.                                                  *)

CRLF == <<"\r", "\n">>
twitchExp == <<"t","m","i",".","t","w","i","t","c","h",".","t","v">>
jtvExp == <<":","j","t","v">>
PING == <<"P","I","N","G">>
PRIVMSG == <<"P","R","I","V","M","S","G">>
JOIN == <<"J","O","I","N">>
PART == <<"P","A","R","T">>
PASS == <<"P","A","S","S">>
NICK == <<"N","I","C","K">>
PONG == <<"P","O","N","G">>

----------------------------------------------------------------------------
(* Msg and the parse of one line (serverResponse, PARSE).                  *)

\* new Msg(): a message none of whose fields is set yet.
Msg ==
    [raw |-> Absent, host |-> Absent, tag |-> Absent, meta |-> Absent,
     meta_host |-> Absent, channel |-> Absent, message |-> Absent,
     status |-> Absent, user |-> Absent, jtv_action |-> Absent,
     error |-> Absent]

\* What a catch(e) receives.
HostError == <<"ERROR: Cannot identify the host!">>
TypeError == <<"TypeError">>
ReferenceError == <<"ReferenceError">>

\* The PING branch: host and tag are set, PONG is written, the loop continues.
ParsePing(m) == [m EXCEPT !.host = twitchExp, !.tag = PING]

\* get `Msg.meta`
ParseMeta(p) ==
    IF p.colonIndex # 0
    THEN [p EXCEPT !.msg.meta = Substring(p.temp, 0, p.colonIndex),
                   !.temp = SubstringFrom(p.temp, p.colonIndex)]
    ELSE p

\* ParseMetaHost without the cut of meta_host at the `!`.
ParseMetaHostWhole(p) ==
    IF p.hostIndex - p.colonIndex # 1
    THEN [p EXCEPT !.msg.meta_host =
                       Substring(p.temp, p.colonIndex + 1, p.hostIndex - 1),
                   !.temp = SubstringFrom(p.temp, p.hostIndex - 1),
                   !.hostIndex = 1]
    ELSE p

\* get `Msg.meta_host`
ParseMetaHost(p) ==
    IF p.hostIndex - p.colonIndex # 1
    THEN LET mh   == Substring(p.temp, p.colonIndex + 1, p.hostIndex - 1)
             bang == Search(mh, <<"!">>)
         IN  [p EXCEPT !.msg.meta_host =
                           IF bang # -1 THEN Substring(mh, p.colonIndex, bang)
                           ELSE mh,
                       !.temp = SubstringFrom(p.temp, p.hostIndex - 1),
                       !.hostIndex = 1]
    ELSE p

\* get `Msg.host`: temp.match(twitchExp) is null when the anchor is no longer
\* in temp, and null.toString() throws.
ParseHost(p) ==
    IF Search(p.temp, twitchExp) = -1
    THEN [p EXCEPT !.thrown = TypeError]
    ELSE [p EXCEPT !.msg.host = twitchExp,
                   !.temp = SubstringFrom(p.temp, p.hostIndex + 14)]

\* get `Msg.message`
ParseMessage(p) ==
    LET c == Search(p.temp, <<":">>)
    IN  IF c # -1
        THEN [p EXCEPT !.colonIndex = c,
                       !.msg.message = SubstringFrom(p.temp, c + 1),
                       !.temp = Substring(p.temp, 0, c - 1)]
        ELSE p

\* get `Msg.channel`
ParseChannel(p) ==
    LET c == Search(p.temp, <<"#">>)
    IN  IF c # -1
        THEN [p EXCEPT !.msg.channel = SubstringFrom(p.temp, c + 1),
                       !.temp = Substring(p.temp, 0, c - 1)]
        ELSE p

\* get `Msg.status`
ParseStatus(p) ==
    IF ~IsNaN(Substring(p.temp, 0, 3))
    THEN [p EXCEPT !.msg.status = Substring(p.temp, 0, 3),
                   !.temp = SubstringFrom(p.temp, 4)]
    ELSE p

\* get `Msg.user` and then `Msg.tag`; temp is null after a user that ends
\* the line, and the tag is then not set.
ParseUserTag(p) ==
    LET head == Substring(p.temp, 0, 3)
        sp   == Search(p.temp, <<" ">>)
    IN  IF head # ToUpperCase(head)
        THEN IF sp # -1
             THEN [p EXCEPT !.msg.user = Substring(p.temp, 0, sp),
                            !.msg.tag = SubstringFrom(p.temp, sp + 1)]
             ELSE [p EXCEPT !.msg.user = p.temp]
        ELSE [p EXCEPT !.msg.tag = p.temp]

\* handle `tmi.twitch.tv` messages, after the PING check
ParseTwitch(m) ==
    LET p0 == [msg |-> m, temp |-> m.raw, thrown |-> Absent,
               hostIndex |-> Search(m.raw, twitchExp),
               colonIndex |-> Search(m.raw, <<":">>)]
        p1 == ParseHost(ParseMetaHost(ParseMeta(p0)))
    IN  IF p1.thrown # Absent
        THEN [p1.msg EXCEPT !.error = p1.thrown]
        ELSE ParseUserTag(ParseStatus(ParseChannel(ParseMessage(p1)))).msg

\* handle `jtv` messages: temp[2].substring(1) throws when there is no third
\* piece; temp[3] and temp[4] are undefined when missing.
ParseJtv(m) ==
    LET temp == Split(m.raw)
        At(i) == IF i + 1 <= Len(temp) THEN temp[i + 1] ELSE Absent
        m2 == [m EXCEPT !.host = SubstringFrom(temp[1], 1), !.tag = At(1)]
    IN  IF Len(temp) < 3
        THEN [m2 EXCEPT !.error = TypeError]
        ELSE [m2 EXCEPT !.channel = SubstringFrom(temp[3], 1),
                        !.jtv_action = At(3),
                        !.user = At(4)]

\* Which branch of the try block a line takes.
LineKind(raw) ==
    IF Search(raw, twitchExp) # -1
    THEN IF Search(raw, PING) # -1 THEN "ping" ELSE "twitch"
    ELSE IF Search(raw, jtvExp) # -1 THEN "jtv" ELSE "unknown"

\* The Msg stored for a line once the try/catch is over.
ParseLine(raw) ==
    LET m == [Msg EXCEPT !.raw = raw]
        k == LineKind(raw)
    IN  CASE k = "ping"    -> ParsePing(m)
          [] k = "twitch"  -> ParseTwitch(m)
          [] k = "jtv"     -> ParseJtv(m)
          [] k = "unknown" -> [m EXCEPT !.error = HostError]

----------------------------------------------------------------------------
(* serverResponse: the loop over the complete lines of one chunk.          *)

HistoryLimit == 200

\* Keep only 200 server messages: shift when longer than the limit, then push.
PushLine(h, m) ==
    (IF Len(h) > HistoryLimit THEN Tail(h) ELSE h) \o <<m>>

\* LIVE CONSOLE & CHAT OUTPUT: what is emitted for a Msg that reached the end
\* of the loop body.
Emit(m, debug) ==
    IF debug THEN <<m>>
    ELSE IF m.tag = PRIVMSG THEN <<<<m.channel, m.meta_host, m.message>>>>
    ELSE <<>>

PongText == PONG \o <<" ", ":">> \o twitchExp \o <<" ">> \o CRLF

\* EventEmitter.emit('message', ...args): the listeners are called in the
\* order they were added, synchronously; an exception thrown by one leaves
\* emit at once, so the listeners after it are not called.
Notify(ls, args) ==
    LET throwers == {i \in 1..Len(ls) : ls[i] = "throws"}
        stop     == IF throwers = {} THEN Len(ls)
                    ELSE CHOOSE i \in throwers : \A j \in throwers : i <= j
    IN  [calls  |-> [i \in 1..stop |-> [listener |-> i, args |-> args]],
         thrown |-> throwers # {}]

\* The channel names join(), chat() and leave() are called with.
Channels == {<<"a">>, <<"B">>}

\* Lines of the server: the JOIN line of a channel, the line that ends the
\* names list of the join burst, and a PING.
JoinLine(c) ==
    <<":","u","!","u","@","u",".">> \o twitchExp \o <<" ">> \o JOIN
        \o <<" ", "#">> \o ToLowerCase(c)
NamesEndLine ==
    <<":","u",".">> \o twitchExp \o <<" ","3","6","6"," ","u"," ",":","e","n","d">>
PingLine == PING \o <<" ", ":">> \o twitchExp

\* ParseLine and LineKind of those lines, evaluated once; every other line
\* is parsed as it comes.
ServerTexts == {NamesEndLine, PingLine} \cup {JoinLine(c) : c \in Channels}
ParsedText == [l \in ServerTexts |-> ParseLine(l)]
KindOfText == [l \in ServerTexts |-> LineKind(l)]
LineMsg(raw) == IF raw \in ServerTexts THEN ParsedText[raw] ELSE ParseLine(raw)
LineBranch(raw) ==
    IF raw \in ServerTexts THEN KindOfText[raw] ELSE LineKind(raw)

\* The end of the loop body: history.push, and the calls emit has made (n).
HandleNotified(st, m, k, e, n) ==
    [history   |-> PushLine(st.history, m),
     wire      |-> IF k = "ping" THEN Append(st.wire, PongText) ELSE st.wire,
     emitted   |-> st.emitted \o e,
     listeners |-> st.listeners,
     delivered |-> st.delivered \o n.calls,
     thrown    |-> n.thrown]

\* chatEvents.emit, when there is something to emit (e).
HandleEmitted(st, m, k, e) ==
    HandleNotified(st, m, k, e,
                   IF e = <<>> THEN [calls |-> <<>>, thrown |-> FALSE]
                   ELSE Notify(st.listeners, e[1]))

\* The loop body after the parse of the line into m by the branch k: the
\* PING branch continues before the emit, and a Msg with an error is not
\* emitted.
HandleParsed(st, m, k, debug) ==
    HandleEmitted(st, m, k,
                  IF k = "ping" \/ m.error # Absent THEN <<>>
                  ELSE Emit(m, debug))

\* One pass of the while loop body on the line `raw`. The emit calls are
\* outside the try block: what a listener throws leaves serverResponse.
HandleLine(st, raw, debug) ==
    HandleParsed(st, LineMsg(raw), LineBranch(raw), debug)

\* while (rawData.search(/\r\n/) !== -1) { ... }: what is left of rawData
\* when the loop ends is dropped with the call, and so is all of it when a
\* listener has thrown.
RECURSIVE serverResponse(_, _, _)
serverResponse(rawData, st, debug) ==
    LET endIndex == Search(rawData, CRLF)
    IN  IF endIndex = -1 \/ st.thrown THEN st
        ELSE serverResponse(SubstringFrom(rawData, endIndex + 2),
                            HandleLine(st, Substring(rawData, 0, endIndex), debug),
                            debug)

----------------------------------------------------------------------------
(* The IRC object: constructor, listeners, join, chat, leave, getChannels. *)

\* The constructor's oauth and username arguments.
oauth == <<"k">>
username == <<"M","e">>

\* The value of a parameter left at its default, null.
Null == <<"null">>

\* What the handler that ran last was, with its arguments and its console line.
Ran(op, chan, text, id, log) ==
    [op |-> op, chan |-> chan, text |-> text, id |-> id, log |-> log]

\* The state the constructor leaves, for a given debug_mode.
Constructed(debug) ==
    /\ socket = "connecting"
    /\ clientState = FALSE
    /\ debug_mode = debug
    /\ history = <<>>
    /\ channel = <<>>
    /\ wire = <<>>
    /\ emitted = <<>>
    /\ listeners = <<>>
    /\ delivered = <<>>
    /\ attempts = <<>>
    /\ deferred = <<>>
    /\ last = Ran("constructor", Null, Null, 0, "")
    /\ inbox = <<>>
    /\ sentLines = <<>>

\* @listener: 'connect'
Connect ==
    /\ socket = "connecting"
    /\ socket' = "open"
    /\ wire' = wire \o <<PASS \o <<" ">> \o oauth \o CRLF,
                         NICK \o <<" ">> \o ToLowerCase(username) \o CRLF>>
    /\ clientState' = TRUE
    /\ last' = Ran("connect", Null, Null, 0,
                   IF debug_mode THEN "Established connection"
                   ELSE "You're connected!")
    /\ UNCHANGED <<debug_mode, history, channel, emitted, listeners, delivered, attempts, deferred,
                   inbox, sentLines>>

\* @listener: 'error'. A socket emits 'error' once, and is destroyed by it;
\* it can do so after 'end' too: a write made before the ended socket is
\* destroyed fails, and the failure is emitted.
SocketError ==
    /\ socket \in {"connecting", "open", "ended"}
    /\ socket' = "closed"
    /\ clientState' = FALSE
    /\ last' = Ran("error", Null, Null, 0,
                   IF debug_mode THEN "ERROR with Twitch server"
                   ELSE "ERROR: Check your username and password")
    /\ UNCHANGED <<debug_mode, history, channel, wire, emitted, listeners, delivered, attempts,
                   deferred, inbox, sentLines>>

\* @listener: 'end'
End ==
    /\ socket = "open"
    /\ socket' = "ended"
    /\ clientState' = FALSE
    /\ last' = Ran("end", Null, Null, 0, "You have disconnected.")
    /\ UNCHANGED <<debug_mode, history, channel, wire, emitted, listeners, delivered, attempts,
                   deferred, inbox, sentLines>>

\* @listener: 'data': serverResponse on the chunk the socket delivers.
Data(chunk) ==
    /\ socket = "open"
    /\ LET st == serverResponse(chunk,
                     [history |-> history, wire |-> wire, emitted |-> emitted,
                      listeners |-> listeners, delivered |-> delivered,
                      thrown |-> FALSE],
                     debug_mode)
       IN  /\ history' = st.history
           /\ wire' = st.wire
           /\ emitted' = st.emitted
           /\ delivered' = st.delivered
           /\ last' = Ran("data", Null, chunk, 0,
                          IF st.thrown THEN "Uncaught exception" ELSE "")
    /\ UNCHANGED <<socket, clientState, debug_mode, channel, listeners, attempts,
                   deferred>>

\* chatEvents.on('message', h), called by the user of the class: h either
\* returns or throws when it is called.
Subscribe(h) ==
    /\ listeners' = Append(listeners, h)
    /\ UNCHANGED <<socket, clientState, debug_mode, history, channel, wire,
                   emitted, delivered, attempts, deferred, last, inbox,
                   sentLines>>

\* The timers join() creates: attemptID (every 500 ms), monitorID (every
\* 20 ms) and timerID (once, at 5000 ms). joins counts the JOIN lines
\* attemptID has written; confirmed is that the monitor pushed the channel;
\* retried, that the call was one made by the 1000 ms timeout.
NewAttempt(c, retried) ==
    [channel |-> c, attemptID |-> TRUE, monitorID |-> TRUE,
     timerID |-> "pending", joins |-> 0, confirmed |-> FALSE,
     retried |-> retried]

\* The body of join(channel); pending is what is left of the deferred calls,
\* retried tells the call of the timeout from the user's.
JoinBody(c, pending, retried) ==
    IF clientState = FALSE
    THEN /\ deferred' = Append(pending, c)
         /\ last' = Ran("join", c, Null, 0, "deferred")
         /\ UNCHANGED attempts
    ELSE IF Includes(channel, c)
    THEN /\ deferred' = pending
         /\ last' = Ran("join", c, Null, 0, "ERROR: Channel already joined")
         /\ UNCHANGED attempts
    ELSE /\ deferred' = pending
         /\ attempts' = Append(attempts, NewAttempt(c, retried))
         /\ last' = Ran("join", c, Null, Len(attempts) + 1, "Joining")

\* join(channel), called by the user of the class
Join(c) ==
    /\ JoinBody(c, deferred, FALSE)
    /\ UNCHANGED <<socket, clientState, debug_mode, history, channel, wire,
                   emitted, listeners, delivered, inbox, sentLines>>

\* setTimeout(() => this.join(channel), 1000) fires: the oldest deferred call
JoinRetry ==
    /\ deferred # <<>>
    /\ JoinBody(Head(deferred), Tail(deferred), TRUE)
    /\ UNCHANGED <<socket, clientState, debug_mode, history, channel, wire,
                   emitted, listeners, delivered, inbox, sentLines>>

JoinText(c) == JOIN \o <<" ", "#">> \o ToLowerCase(c) \o CRLF

\* attemptID fires: retry connection every 0.5 seconds. The timers of one
\* duration run as one list, in the order they were made, so a 500 ms tick
\* can run before the 20 ms interval made in the same call ever has: when
\* the thread was busy and an older 500 ms timer is due, the whole list
\* runs first. No order among the timers of an attempt is assumed.
AttemptTick(a) ==
    /\ attempts[a].attemptID
    /\ wire' = Append(wire, JoinText(attempts[a].channel))
    /\ attempts' = [attempts EXCEPT ![a].joins = @ + 1]
    /\ last' = Ran("attemptID", attempts[a].channel, Null, a, "")
    /\ UNCHANGED <<socket, clientState, debug_mode, history, channel, emitted, listeners, delivered,
                   deferred, inbox, sentLines>>

\* What the monitor reads: history[history.length - 3].tag === 'JOIN'; the
\* read throws, and the catch swallows it, when there is no such entry.
MonitorSeesJoin(h, c) ==
    LET lastIndex == Len(h) - 3
    IN  /\ lastIndex >= 0
        /\ h[lastIndex + 1].tag = JOIN

\* MonitorTick without clearInterval(attemptID).
MonitorTickKeepsRetransmit(a) ==
    /\ attempts[a].monitorID
    /\ IF MonitorSeesJoin(history, attempts[a].channel)
       THEN /\ attempts' = [attempts EXCEPT ![a].monitorID = FALSE,
                                            ![a].timerID = "cleared",
                                            ![a].confirmed = TRUE]
            /\ channel' = Append(channel, attempts[a].channel)
            /\ last' = Ran("monitorID", attempts[a].channel, Null, a,
                           "You have joined")
       ELSE /\ attempts' = attempts
            /\ channel' = channel
            /\ last' = Ran("monitorID", attempts[a].channel, Null, a, "")
    /\ UNCHANGED <<socket, clientState, debug_mode, history, wire, emitted, listeners, delivered,
                   deferred, inbox, sentLines>>

\* monitorID fires: check to see if the channel has been joined
MonitorTick(a) ==
    /\ attempts[a].monitorID
    /\ IF MonitorSeesJoin(history, attempts[a].channel)
       THEN /\ attempts' = [attempts EXCEPT ![a].attemptID = FALSE,
                                            ![a].monitorID = FALSE,
                                            ![a].timerID = "cleared",
                                            ![a].confirmed = TRUE]
            /\ channel' = Append(channel, attempts[a].channel)
            /\ last' = Ran("monitorID", attempts[a].channel, Null, a,
                           "You have joined")
       ELSE /\ attempts' = attempts
            /\ channel' = channel
            /\ last' = Ran("monitorID", attempts[a].channel, Null, a,
                           IF debug_mode /\ Len(history) < 3
                           THEN "WARNING: failed to join" ELSE "")
    /\ UNCHANGED <<socket, clientState, debug_mode, history, wire, emitted, listeners, delivered,
                   deferred, inbox, sentLines>>

\* Abandon without clearInterval(monitorID).
AbandonKeepsMonitor(a) ==
    /\ attempts[a].timerID = "pending"
    /\ attempts' = [attempts EXCEPT ![a].attemptID = FALSE,
                                    ![a].timerID = "fired"]
    /\ last' = Ran("timerID", attempts[a].channel, Null, a, "ERROR: Cannot join")
    /\ UNCHANGED <<socket, clientState, debug_mode, history, channel, wire,
                   emitted, listeners, delivered, deferred, inbox, sentLines>>

\* timerID fires: make sure we don't try to join forever. After a busy
\* thread it can run before attemptID or monitorID ever has (an older
\* 5000 ms timer being due), and then no JOIN was written for the attempt.
Abandon(a) ==
    /\ attempts[a].timerID = "pending"
    /\ attempts' = [attempts EXCEPT ![a].attemptID = FALSE,
                                    ![a].monitorID = FALSE,
                                    ![a].timerID = "fired"]
    /\ last' = Ran("timerID", attempts[a].channel, Null, a, "ERROR: Cannot join")
    /\ UNCHANGED <<socket, clientState, debug_mode, history, channel, wire,
                   emitted, listeners, delivered, deferred, inbox, sentLines>>

ChatText(c, m) ==
    PRIVMSG \o <<" ", "#">> \o ToLowerCase(c) \o <<" ", ":">> \o m \o CRLF

\* The Msg chat() builds for its own line, which Twitch does not echo.
NewChat(c, m) ==
    [Msg EXCEPT !.meta_host = username, !.host = twitchExp, !.tag = PRIVMSG,
                !.channel = c, !.message = m]

\* chat(message): default, send to last channel joined
ChatDefault(m) ==
    LET lastIndex == Len(channel) - 1
    IN  IF lastIndex = -1
        THEN /\ last' = Ran("chat", Null, m, 0,
                            "ERROR: You must join a channel first")
             /\ UNCHANGED <<wire, history>>
        ELSE /\ wire' = Append(wire, ChatText(channel[lastIndex + 1], m))
             /\ history' = Append(history, NewChat(channel[lastIndex + 1], m))
             /\ last' = Ran("chat", Null, m, 0, "")

\* ChatExplicit with the write made before the channel is looked up.
ChatExplicitWritesFirst(m, c) ==
    /\ wire' = Append(wire, ChatText(c, m))
    /\ history' = history
    /\ last' = Ran("chat", c, m, 0,
                   IF Includes(channel, c) THEN "ReferenceError"
                   ELSE "ERROR: You must chat a channel that has already been joined")

\* chat(message, channel): send to specified channel. The write is made, then
\* `newChat.message = messsage` reads a name that is not declared, which
\* throws before history.push; the catch logs the exception.
ChatExplicit(m, c) ==
    IF Includes(channel, c)
    THEN /\ wire' = Append(wire, ChatText(c, m))
         /\ history' = history
         /\ last' = Ran("chat", c, m, 0, "ReferenceError")
    ELSE /\ last' = Ran("chat", c, m, 0,
              "ERROR: You must chat a channel that has already been joined")
         /\ UNCHANGED <<wire, history>>

\* chat(message, channel = null)
Chat(m, c) ==
    /\ IF c = Null THEN ChatDefault(m) ELSE ChatExplicit(m, c)
    /\ UNCHANGED <<socket, clientState, debug_mode, channel, emitted, listeners, delivered, attempts,
                   deferred, inbox, sentLines>>

PartText(c) == PART \o <<" ", "#">> \o ToLowerCase(c) \o CRLF

\* Array.prototype.splice(i, 1), i from 0; i = -1 removes the last element.
Splice1(arr, i) ==
    LET k == IF i < 0 THEN Max(Len(arr) + i, 0) ELSE Min(i, Len(arr))
    IN  SubSeq(arr, 1, k) \o SubSeq(arr, k + 2, Len(arr))

\* 'text' + channel: the characters of a name as one text.
RECURSIVE Text(_)
Text(s) == IF s = <<>> THEN "" ELSE s[1] \o Text(Tail(s))

\* What leave() throws, and its catch logs, with no channel joined.
LeaveNoneError ==
    "ERROR: You called \"leave()\". You have not joined a channel yet"

\* What leave(channel) throws, and its catch logs, for a channel not joined:
\* "ERROR: Cannot leave" + channel + ". You have not joined that channel yet."
LeaveError(c) ==
    "ERROR: Cannot leave" \o Text(c) \o ". You have not joined that channel yet."

\* leave(): default, leave last channel joined
LeaveDefault ==
    LET lastIndex == Len(channel) - 1
    IN  IF lastIndex = -1
        THEN /\ last' = Ran("leave", Null, Null, 0, LeaveNoneError)
             /\ UNCHANGED <<wire, channel>>
        ELSE /\ wire' = Append(wire, PartText(channel[lastIndex + 1]))
             /\ channel' = SubSeq(channel, 1, Len(channel) - 1)
             /\ last' = Ran("leave", Null, Null, 0, "You left")

\* LeaveExplicit without the includes() check: PART is written and
\* splice(indexOf(channel), 1) runs whatever indexOf returns.
LeaveExplicitUnchecked(c) ==
    /\ wire' = Append(wire, PartText(c))
    /\ channel' = Splice1(channel, IndexOf(channel, c))
    /\ last' = Ran("leave", c, Null, 0, "You left")

\* leave(channel): leave specified channel
LeaveExplicit(c) ==
    IF Includes(channel, c)
    THEN /\ wire' = Append(wire, PartText(c))
         /\ channel' = Splice1(channel, IndexOf(channel, c))
         /\ last' = Ran("leave", c, Null, 0, "You left")
    ELSE /\ last' = Ran("leave", c, Null, 0, LeaveError(c))
         /\ UNCHANGED <<wire, channel>>

\* leave(channel = null)
Leave(c) ==
    /\ IF c = Null THEN LeaveDefault ELSE LeaveExplicit(c)
    /\ UNCHANGED <<socket, clientState, debug_mode, history, emitted, listeners, delivered, attempts,
                   deferred, inbox, sentLines>>

\* getChannels(): returns this.channel
getChannels == channel

----------------------------------------------------------------------------
(* Inputs and bounds.                                                      *)

MaxHistory == 3    \* Spec, SpecRace: lines received while the history is shorter
MaxJoinCalls == 1  \* Spec: join() calls made by the user
MaxRaceCalls == 2  \* SpecRace: join() calls made by the user
MaxWire == 4       \* Spec, SpecRace: client.write calls made (PASS, NICK included)
MaxLines == 3      \* SpecFrame: lines the server sends
MaxOver == 2       \* SpecHist: lines received beyond HistoryLimit

Texts == {<<"h","i">>}

\* Short lines of no known host.
FrameLines == {<<"x">>, <<"y","z">>}

\* The server sends the JOIN line of a channel only once the client has
\* asked to join it.
ServerLines ==
    {NamesEndLine} \cup
    {JoinLine(c) : c \in {d \in Channels : Includes(wire, JoinText(d))}}

----------------------------------------------------------------------------
(* Spec: the client from construction on, the server's lines delivered one *)
(* complete line per chunk, one join() call.                               *)

\* new IRC(oauth, username): debug defaults to false
Init == Constructed(FALSE)

Receive ==
    /\ Len(history) < MaxHistory
    /\ \E l \in ServerLines :
          /\ Data(l \o CRLF)
          /\ sentLines' = Append(sentLines, l)
    /\ UNCHANGED inbox

UserJoin ==
    /\ Len(attempts) + Len(deferred) < MaxJoinCalls
    /\ \E c \in Channels : Join(c)

Retransmit ==
    /\ Len(wire) < MaxWire
    /\ \E a \in 1..Len(attempts) : AttemptTick(a)

Poll == \E a \in 1..Len(attempts) : MonitorTick(a)

GiveUp == \E a \in 1..Len(attempts) : Abandon(a)

UserChat ==
    /\ Len(wire) < MaxWire
    /\ \E m \in Texts : \E c \in Channels \cup {Null} : Chat(m, c)

UserLeave ==
    /\ Len(wire) < MaxWire
    /\ \E c \in Channels \cup {Null} : Leave(c)

Next ==
    \/ Connect
    \/ SocketError
    \/ End
    \/ Receive
    \/ UserJoin
    \/ JoinRetry
    \/ Retransmit
    \/ Poll
    \/ GiveUp
    \/ UserChat
    \/ UserLeave

Spec == Init /\ [][Next]_vars

----------------------------------------------------------------------------
(* SpecRace: as Spec, with join() called twice.                            *)

UserJoinRace ==
    /\ Len(attempts) + Len(deferred) < MaxRaceCalls
    /\ \E c \in Channels : Join(c)

NextRace ==
    \/ Connect
    \/ SocketError
    \/ End
    \/ Receive
    \/ UserJoinRace
    \/ JoinRetry
    \/ Retransmit
    \/ Poll
    \/ GiveUp
    \/ UserChat
    \/ UserLeave

SpecRace == Init /\ [][NextRace]_vars

----------------------------------------------------------------------------
(* SpecFrame: the server's lines reach the 'data' listener in chunks cut   *)
(* anywhere.                                                               *)

\* new IRC(oauth, username, debug), with either value of debug
InitFrame == \E debug \in BOOLEAN : Constructed(debug)

ServerSend ==
    /\ socket = "open"
    /\ Len(sentLines) < MaxLines
    /\ \E l \in FrameLines :
          /\ inbox' = inbox \o l \o CRLF
          /\ sentLines' = Append(sentLines, l)
    /\ UNCHANGED <<socket, clientState, debug_mode, history, channel, wire,
                   emitted, listeners, delivered, attempts, deferred, last>>

Deliver ==
    /\ inbox # <<>>
    /\ \E k \in 1..Len(inbox) :
          /\ Data(SubSeq(inbox, 1, k))
          /\ inbox' = SubSeq(inbox, k + 1, Len(inbox))
    /\ UNCHANGED sentLines

NextFrame ==
    \/ Connect
    \/ ServerSend
    \/ Deliver

SpecFrame == InitFrame /\ [][NextFrame]_vars

----------------------------------------------------------------------------
(* SpecHist: a client that has joined channel a and whose history is two   *)
(* entries short of the limit: the JOIN line that confirmed the join and   *)
(* the lines received since.                                               *)

InitHist ==
    LET lines == [i \in 1..(HistoryLimit - 2) |->
                     IF i = 1 THEN JoinLine(<<"a">>) ELSE NamesEndLine]
    IN  /\ socket = "open"
        /\ clientState = TRUE
        /\ debug_mode = FALSE
        /\ history = [i \in 1..Len(lines) |-> ParseLine(lines[i])]
        /\ channel = <<<<"a">>>>
        /\ wire = <<PASS \o <<" ">> \o oauth \o CRLF,
                    NICK \o <<" ">> \o ToLowerCase(username) \o CRLF,
                    JoinText(<<"a">>)>>
        /\ emitted = <<>>
        /\ listeners = <<>>
        /\ delivered = <<>>
        /\ attempts = <<[NewAttempt(<<"a">>, FALSE) EXCEPT
                            !.attemptID = FALSE, !.monitorID = FALSE,
                            !.timerID = "cleared",
                            !.joins = 1, !.confirmed = TRUE]>>
        /\ deferred = <<>>
        /\ last = Ran("data", Null, NamesEndLine \o CRLF, 0, "")
        /\ inbox = <<>>
        /\ sentLines = lines

ReceiveMore ==
    /\ Len(sentLines) < HistoryLimit + MaxOver
    /\ \E l \in ServerLines \cup {PingLine} :
          /\ Data(l \o CRLF)
          /\ sentLines' = Append(sentLines, l)
    /\ UNCHANGED inbox

ChatMore ==
    /\ Len(wire) < MaxWire + MaxOver
    /\ \E m \in Texts : \E c \in Channels \cup {Null} : Chat(m, c)

NextHist ==
    \/ ReceiveMore
    \/ ChatMore

SpecHist == InitHist /\ [][NextHist]_vars

----------------------------------------------------------------------------
(* SpecJoined: a client that has joined channel a: the JOIN line that      *)
(* confirmed the join and the two lines after it are the history. join()   *)
(* is called once more, for either channel.                                *)

InitJoined ==
    LET lines == <<JoinLine(<<"a">>), NamesEndLine, NamesEndLine>>
    IN  /\ socket = "open"
        /\ clientState = TRUE
        /\ debug_mode = FALSE
        /\ history = [i \in 1..Len(lines) |-> ParseLine(lines[i])]
        /\ channel = <<<<"a">>>>
        /\ wire = <<PASS \o <<" ">> \o oauth \o CRLF,
                    NICK \o <<" ">> \o ToLowerCase(username) \o CRLF,
                    JoinText(<<"a">>)>>
        /\ emitted = <<>>
        /\ listeners = <<>>
        /\ delivered = <<>>
        /\ attempts = <<[NewAttempt(<<"a">>, FALSE) EXCEPT
                            !.attemptID = FALSE, !.monitorID = FALSE,
                            !.timerID = "cleared",
                            !.joins = 1, !.confirmed = TRUE]>>
        /\ deferred = <<>>
        /\ last = Ran("monitorID", <<"a">>, Null, 1, "You have joined")
        /\ inbox = <<>>
        /\ sentLines = lines

ReceiveAgain ==
    /\ Len(sentLines) < MaxHistory + MaxOver
    /\ \E l \in ServerLines :
          /\ Data(l \o CRLF)
          /\ sentLines' = Append(sentLines, l)
    /\ UNCHANGED inbox

UserJoinAgain ==
    /\ Len(attempts) + Len(deferred) < MaxJoinCalls + 1
    /\ \E c \in Channels : Join(c)

NextJoined ==
    \/ SocketError
    \/ End
    \/ ReceiveAgain
    \/ UserJoinAgain
    \/ JoinRetry
    \/ Retransmit
    \/ Poll
    \/ GiveUp
    \/ UserLeave

SpecJoined == InitJoined /\ [][NextJoined]_vars

----------------------------------------------------------------------------
(* SpecParse: a connected client, in either mode, that receives lines of   *)
(* both dialects, PING lines and lines of no known host, one line a chunk. *)

MaxParsed == 2     \* SpecParse, SpecListen: lines the server sends

Nicks == {<<"r">>, <<"a","1">>}
Rooms == {<<"d">>, <<"c","_">>}
ChatTexts == {<<"K"," ","k">>, <<"a",":","#">>, <<"P","I","N","G">>}

\* :<nick>!<nick>@<nick>.tmi.twitch.tv PRIVMSG #<channel> :<text>
PrivmsgLine(n, c, t) ==
    <<":">> \o n \o <<"!">> \o n \o <<"@">> \o n \o <<".">> \o twitchExp
        \o <<" ">> \o PRIVMSG \o <<" ", "#">> \o c \o <<" ", ":">> \o t

\* The first k tokens of `:jtv MODE #d +o r`, with single spaces between.
JtvTokens == << <<":","j","t","v">>, <<"M","O","D","E">>, <<"#","d">>,
                <<"+","o">>, <<"r">> >>
RECURSIVE JtvLine(_)
JtvLine(k) ==
    IF k = 1 THEN JtvTokens[1] ELSE JtvLine(k - 1) \o <<" ">> \o JtvTokens[k]

\* A line of tmi.twitch.tv with text before its first colon.
MetaLine == <<"@","t"," ">> \o NamesEndLine

ParseLines ==
    {PingLine, NamesEndLine, MetaLine, <<"x">>}
        \cup {JtvLine(k) : k \in 1..5}
        \cup {PrivmsgLine(n, c, t) : n \in Nicks, c \in Rooms, t \in ChatTexts}

ReceiveLine ==
    /\ Len(sentLines) < MaxParsed
    /\ \E l \in ParseLines :
          /\ Data(l \o CRLF)
          /\ sentLines' = Append(sentLines, l)
    /\ UNCHANGED inbox

NextParse ==
    \/ Connect
    \/ ReceiveLine

SpecParse == InitFrame /\ [][NextParse]_vars

----------------------------------------------------------------------------
(* SpecListen: a client, in either mode, whose user adds listeners to      *)
(* chatEvents; the server's lines arrive one or two to a chunk, each chunk *)
(* ending with the end of a line. An exception that leaves the 'data'      *)
(* listener is not caught by anything: no later chunk is delivered.        *)

MaxListeners == 2  \* SpecListen: chatEvents.on calls

ListenLines == {PrivmsgLine(<<"r">>, <<"d">>, <<"K"," ","k">>), NamesEndLine}

UserSubscribe ==
    /\ Len(listeners) < MaxListeners
    /\ \E h \in {"returns", "throws"} : Subscribe(h)

ReceiveChunk ==
    /\ last.log # "Uncaught exception"
    /\ \E ls \in UNION {[1..n -> ListenLines] : n \in 1..2} :
          /\ Len(sentLines) + Len(ls) <= MaxParsed
          /\ Data(IF Len(ls) = 1 THEN ls[1] \o CRLF
                  ELSE ls[1] \o CRLF \o ls[2] \o CRLF)
          /\ sentLines' = sentLines \o ls
    /\ UNCHANGED inbox

NextListen ==
    \/ Connect
    \/ UserSubscribe
    \/ ReceiveChunk

SpecListen == InitFrame /\ [][NextListen]_vars

----------------------------------------------------------------------------
(* The claims.                                                             *)

Raws(h) == [i \in 1..Len(h) |-> h[i].raw]

\* C1: once every chunk is delivered, the history holds exactly the lines the
\* server sent, in order, each without its CRLF, however the chunks were cut:
\* a fragment left at the end of one chunk is prefixed onto the next.
C1_FramedAcrossChunks == (inbox = <<>>) => Raws(history) = sentLines

\* C2: in every reachable state the history holds at most 200 entries,
\* whatever lines were received and chat calls made.
C2_HistoryAtMostLimit == Len(history) <= HistoryLimit

\* The entry the poll timer reads, history[history.length - 3].
Inspected == history[Len(history) - 2]
JustConfirmed == last.op = "monitorID" /\ last.log = "You have joined"

\* C3: a poll tick confirms the join of channel c only when the entry it
\* inspects is JOIN-tagged and is about c; so with join(a) and join(b) both
\* Joining, the JOIN entry of a does not make b Joined.
C3_ConfirmedOnlyByOwnJoin ==
    JustConfirmed =>
        /\ Len(history) >= 3
        /\ Inspected.tag = JOIN
        /\ Inspected.channel = ToLowerCase(last.chan)

ThreeJoins(h, c) ==
    /\ Len(h) >= 3
    /\ \A i \in (Len(h) - 2)..Len(h) :
          h[i].tag = JOIN /\ h[i].channel = ToLowerCase(c)

\* C4: a poll tick of a Joining attempt for c that finds the three newest
\* history entries JOIN-tagged for c appends c to the channel list and clears
\* attemptID, monitorID and timerID; a confirmed attempt never changes again,
\* so it writes no further JOIN.
C4_ConfirmedAtNextPoll ==
    [][\A a \in 1..Len(attempts) :
          /\ (MonitorTick(a) /\ ThreeJoins(history, attempts[a].channel)) =>
                /\ channel' = Append(channel, attempts[a].channel)
                /\ ~attempts'[a].attemptID
                /\ ~attempts'[a].monitorID
                /\ attempts'[a].timerID = "cleared"
          /\ attempts[a].confirmed =>
                /\ attempts'[a] = attempts[a]
                /\ ~AttemptTick(a)]_vars

C4_Witness ==
    /\ JustConfirmed
    /\ ThreeJoins(history, last.chan)
    /\ Includes(channel, last.chan)
    /\ attempts[last.id].joins > 0
    /\ ~attempts[last.id].attemptID

\* C5: when timerID fires it clears attemptID and monitorID and touches
\* neither the channel list nor the socket; from then on the attempt never
\* changes: it writes no JOIN and never pushes its channel, whatever arrives.
C5_AbandonedIsFinal ==
    [][\A a \in 1..Len(attempts) :
          /\ Abandon(a) =>
                /\ ~attempts'[a].attemptID
                /\ ~attempts'[a].monitorID
                /\ attempts'[a].timerID = "fired"
                /\ ~attempts'[a].confirmed
                /\ UNCHANGED <<channel, wire>>
          /\ attempts[a].timerID = "fired" =>
                /\ attempts'[a] = attempts[a]
                /\ ~AttemptTick(a)
                /\ ~MonitorTick(a)
                /\ ~Abandon(a)]_vars

C5_Witness ==
    \E a \in 1..Len(attempts) :
        /\ attempts[a].timerID = "fired"
        /\ attempts[a].joins > 0
        /\ Len(history) >= 3
        /\ Inspected.tag = JOIN
        /\ Inspected.channel = ToLowerCase(attempts[a].channel)
        /\ ~Includes(channel, attempts[a].channel)

\* The channel a chat() or leave() call is about, and whether there is one.
Resolvable(c) == IF c = Null THEN channel # <<>> ELSE Includes(channel, c)
Resolved(c) == IF c = Null THEN channel[Len(channel)] ELSE c

\* C6: every chat() call whose channel resolves, with or without a channel
\* argument, writes exactly one PRIVMSG for that channel with the caller's
\* text and appends exactly one Msg of its own (PRIVMSG, that channel, that
\* text) to the history.
C6_SendWritesAndRecords ==
    [][\A m \in Texts : \A c \in Channels \cup {Null} :
          (Chat(m, c) /\ Resolvable(c)) =>
              /\ wire' = Append(wire, ChatText(Resolved(c), m))
              /\ Len(history') = Len(history) + 1
              /\ SubSeq(history', 1, Len(history)) = history
              /\ history'[Len(history')].tag = PRIVMSG
              /\ history'[Len(history')].channel = Resolved(c)
              /\ history'[Len(history')].message = m
              /\ history'[Len(history')].meta_host = username]_vars

StateErrors ==
    {"ERROR: You must join a channel first",
     "ERROR: You must chat a channel that has already been joined",
     LeaveNoneError}
        \cup {LeaveError(c) : c \in Channels}

\* C7: chat(m) with no channel joined, and chat(m, c) with c not in the
\* channel list, report an error and write nothing; history and the channel
\* list stay as they were.
C7_UnresolvedSendHasNoEffect ==
    [][\A m \in Texts : \A c \in Channels \cup {Null} :
          (Chat(m, c) /\ ~Resolvable(c)) =>
              /\ UNCHANGED <<wire, history, channel>>
              /\ last'.log \in StateErrors]_vars

C7_Witness ==
    /\ last.op = "chat"
    /\ last.chan # Null
    /\ last.log \in StateErrors
    /\ \E a \in 1..Len(attempts) :
          attempts[a].channel = last.chan /\ attempts[a].monitorID

\* C8: leave(c) with c not in the channel list, and leave() with no channel
\* joined, report an error, write no PART and leave the channel list as it was.
C8_LeaveNotJoinedHasNoEffect ==
    [][\A c \in Channels \cup {Null} :
          (Leave(c) /\ ~Resolvable(c)) =>
              /\ UNCHANGED <<wire, channel>>
              /\ last'.log \in StateErrors]_vars

C8_Witness ==
    /\ last.op = "leave"
    /\ last.chan # Null
    /\ last.log \in StateErrors
    /\ \E a \in 1..Len(attempts) :
          /\ attempts[a].channel = last.chan
          /\ attempts[a].timerID = "fired"
          /\ attempts[a].joins > 0

Without(arr, c) == SelectSeq(arr, LAMBDA x : x # c)

\* C9: leave(c) with c in the channel list writes exactly one PART for c,
\* after which getChannels() does not hold c and holds every other channel in
\* the order it had.
C9_LeaveRemovesChannel ==
    [][\A c \in Channels :
          (Leave(c) /\ Includes(channel, c)) =>
              /\ wire' = Append(wire, PartText(c))
              /\ ~Includes(getChannels', c)
              /\ getChannels' = Without(channel, c)]_vars

\* C10: join(c), called or retried while the socket is not connected, writes
\* nothing and starts no timer, and stays scheduled; a retry that finds the
\* socket connected (and c not joined) starts the timers of an attempt for c;
\* and no attempt started by a retry ends, confirmed or abandoned, without a
\* JOIN for its channel having been written.
C10_DeferredJoin ==
    [][/\ \A c \in Channels :
             (/\ Join(c) \/ (JoinRetry /\ Head(deferred) = c)
              /\ ~clientState) =>
                 /\ UNCHANGED <<wire, attempts>>
                 /\ Includes(deferred', c)
                 /\ Len(deferred') >= Len(deferred)
       /\ (JoinRetry /\ clientState /\ ~Includes(channel, Head(deferred))) =>
             attempts' = Append(attempts, NewAttempt(Head(deferred), TRUE))
       /\ \A a \in 1..Len(attempts') :
             (attempts'[a].retried /\ ~attempts'[a].monitorID) =>
                 Includes(wire', JoinText(attempts'[a].channel))]_vars

\* C11: join(c) with c already in the channel list, called or retried, writes
\* nothing, leaves the attempts and the channel list as they were, logs the
\* error and starts no timer: the call is not scheduled again.
C11_JoinOfJoinedIsNoOp ==
    [][\A c \in Channels :
          /\ (Join(c) /\ Includes(channel, c)) =>
                /\ UNCHANGED <<wire, attempts, channel>>
                /\ last'.log = "ERROR: Channel already joined"
                /\ deferred' = deferred
          /\ (JoinRetry /\ Head(deferred) = c /\ Includes(channel, c)) =>
                /\ UNCHANGED <<wire, attempts, channel>>
                /\ last'.log = "ERROR: Channel already joined"
                /\ deferred' = Tail(deferred)]_vars

\* C12: in debug mode chatEvents.emit has been called exactly once for every
\* line in the history that parsed without error, PING lines included, with
\* the Msg of that line, in the order of the lines.
C12_VerboseEmitsEveryParsedLine ==
    debug_mode => emitted = SelectSeq(history, LAMBDA m : m.error = Absent)

\* C13: whatever the listeners do, a chunk of complete lines is framed and
\* appended to the history to its last line, and every message delivered to
\* one listener while the chunk is handled is delivered to every listener.
C13_ThrowingListenerIsIsolated ==
    [][sentLines' # sentLines =>
          /\ Raws(history') = sentLines'
          /\ \A k \in (Len(delivered) + 1)..Len(delivered') :
                \A i \in 1..Len(listeners) :
                    \E j \in (Len(delivered) + 1)..Len(delivered') :
                        delivered'[j] = [listener |-> i,
                                         args |-> delivered'[k].args]]_vars

\* C14: receiving `PING :tmi.twitch.tv` appends a Msg with tag PING, host
\* tmi.twitch.tv and no other parsed field, and writes once, exactly
\* `PONG :tmi.twitch.tv` followed by CRLF.
C14_PingAnsweredExactly ==
    [][Data(PingLine \o CRLF) =>
          /\ history' = Append(history, [Msg EXCEPT !.raw = PingLine,
                                                    !.host = twitchExp,
                                                    !.tag = PING])
          /\ wire' = Append(wire, PONG \o <<" ", ":">> \o twitchExp \o CRLF)]_vars

\* The fields of a Msg other than raw and error.
Semantic ==
    {"host", "tag", "meta", "meta_host", "channel", "message", "status",
     "user", "jtv_action"}

\* C15: a Msg in the history whose error is set has raw set and none of
\* host, tag, meta, meta_host, channel, message, status, user, jtv_action.
C15_ErrorExcludesFields ==
    \A i \in 1..Len(history) :
        history[i].error # Absent =>
            /\ history[i].raw # Absent
            /\ \A f \in Semantic : history[i][f] = Absent

\* Token i (from 0) of a jtv line of k tokens, the leading character of
\* tokens 0 and 2 removed; absent when the line has no such token.
JtvField(k, i) ==
    IF i + 1 > k THEN Absent
    ELSE IF i \in {0, 2} THEN Tail(JtvTokens[i + 1]) ELSE JtvTokens[i + 1]

\* C16: a jtv line of 1 to 4 tokens is stored without error, host, tag,
\* channel, jtv_action and user set from the tokens that are present and
\* absent for the missing ones.
C16_ShortJtvLineParsed ==
    \A i \in 1..Len(history) : \A k \in 1..4 :
        history[i].raw = JtvLine(k) =>
            /\ history[i].error = Absent
            /\ history[i].host = JtvField(k, 0)
            /\ history[i].tag = JtvField(k, 1)
            /\ history[i].channel = JtvField(k, 2)
            /\ history[i].jtv_action = JtvField(k, 3)
            /\ history[i].user = JtvField(k, 4)

\* What C17 expects of the Msg stored for PrivmsgLine(n, c, t).
PrivmsgParsed(m, n, c, t) ==
    /\ m.meta_host = n
    /\ m.host = twitchExp
    /\ m.channel = c
    /\ m.tag = PRIVMSG
    /\ m.message = t
    /\ m.error = Absent

\* C17 as stated: the PRIVMSG line of every nick, channel and text parses to
\* meta_host, host, channel, tag PRIVMSG and message, without error.
C17_PrivmsgParsedAnyText ==
    \A i \in 1..Len(history) :
        \A n \in Nicks : \A c \in Rooms : \A t \in ChatTexts :
            history[i].raw = PrivmsgLine(n, c, t) =>
                PrivmsgParsed(history[i], n, c, t)

\* C17 amended: the same, for every text that does not contain PING.
C17_PrivmsgParsed ==
    \A i \in 1..Len(history) :
        \A n \in Nicks : \A c \in Rooms : \A t \in ChatTexts :
            (history[i].raw = PrivmsgLine(n, c, t) /\ Search(t, PING) = -1) =>
                PrivmsgParsed(history[i], n, c, t)

C17_Witness ==
    \E i \in 1..Len(history) :
        /\ history[i].raw = PrivmsgLine(<<"a","1">>, <<"c","_">>, <<"K"," ","k">>)
        /\ history[i].message = <<"K"," ","k">>
        /\ history[i].meta_host = <<"a","1">>

\* Entry i of the history is a JOIN entry of channel c.
JoinEntry(h, i, c) == h[i].tag = JOIN /\ h[i].channel = ToLowerCase(c)

\* C18: a poll tick of an attempt for c confirms it whenever one of the last
\* three history entries is a JOIN entry of c, also when the history holds
\* fewer than three entries or lines followed the JOIN entry.
C18_ConfirmedByAnyOfLastThree ==
    [][\A a \in 1..Len(attempts) :
          (/\ MonitorTick(a)
           /\ \E i \in 1..Len(history) :
                 /\ i > Len(history) - 3
                 /\ JoinEntry(history, i, attempts[a].channel)) =>
              /\ attempts'[a].confirmed
              /\ channel' = Append(channel, attempts[a].channel)]_vars

\* The messages chat() appended: none when no PRIVMSG was written.
NoChat == \A i \in 1..Len(wire) : Search(wire[i], PRIVMSG) = -1

\* C19: once more than 200 lines have been appended the history holds
\* exactly the 200 appended last, in arrival order; so after the 201st the
\* first one is gone.
C19_KeepsNewestInOrder ==
    (NoChat /\ Len(sentLines) > HistoryLimit) =>
        Raws(history) = SubSeq(sentLines, Len(sentLines) - HistoryLimit + 1,
                               Len(sentLines))

\* C20: the channel list never holds the same name twice.
C20_NoDuplicateChannel ==
    \A i \in 1..Len(channel) : \A j \in 1..Len(channel) :
        i # j => channel[i] # channel[j]

\* C21: only a JOIN entry appended after join(c) entered Joining confirms the
\* attempt. So a poll tick that runs right after the call, when every entry
\* of the history was there before it, never pushes c.
C21_ConfirmedOnlyByLaterJoin ==
    [][\A a \in 1..Len(attempts) :
          (/\ MonitorTick(a)
           /\ last.op = "join"
           /\ last.log = "Joining"
           /\ last.id = a) =>
              /\ ~attempts'[a].confirmed
              /\ channel' = channel]_vars

====
